---- MODULE Spec2Model ----
(***************************************************************************)
(* TileStache.Goodies.VecTiles.server: the tile query and format dispatch  *)
(* pipeline (Provider, MultiProvider, Connection, Response, EmptyResponse, *)
(* MultiResponse, query_columns, get_features, build_query).               *)
(*                                                                         *)
(* Numbers.  Python floats are carried as integers on two grids:           *)
(*   - box coordinates count units of circumference / 2^26 (about 0.6 m),  *)
(*     so the world is WorldWidth = 2^26 units wide and a zoom-z tile is   *)
(*     2^(26-z) units wide;                                                *)
(*   - lengths that come from the tolerances table, and every number that  *)
(*     build_query writes into the query text, count sixteenths of that    *)
(*     unit (circumference / 2^30), so that 0.5 * tolerances[21] is still  *)
(*     an integer.  Fine(x) converts the first grid to the second.         *)
(* simplify is carried in halves (simplify = 1.0 is 2).                    *)
(*                                                                         *)
(* Python's None is the empty set, a present value x is {x}.               *)
(***************************************************************************)
EXTENDS Integers, Sequences, FiniteSets, TLC

VARIABLES
    layers,     \* config.layers: layer name -> Provider (its fields, self.columns included)
    multi,      \* MultiProvider.names
    table,      \* the database: query template -> what the template selects
    resp,       \* what the last renderTile call returned or raised
    call,       \* the last call made: its name, arguments, outcome and what it did
    threads     \* the renderTile requests in flight: where each one is, and its locals

vars == <<layers, multi, table, resp, call, threads>>

----------------------------------------------------------------------------
(* Bounds of the model *)

MaxQueries == 2        \* longest queries list of a Provider
MaxZoom == 22          \* highest coord.zoom asked of the zoom resolution
MaxTileZoom == 3       \* highest coord.zoom asked of the whole pipeline
MaxNames == 2          \* longest names list of a MultiProvider
MaxFailAt == 2         \* latest probe an injected failure strikes
MaxThreads == 2        \* renderTile requests in flight at once on one Provider

----------------------------------------------------------------------------
(* Python values *)

None == {}
Some(x) == {x}
TheValue(o) == CHOOSE x \in o : TRUE

Abs(x) == IF x < 0 THEN -x ELSE x

RECURSIVE Pow2(_)
Pow2(n) == IF n <= 0 THEN 1 ELSE 2 * Pow2(n - 1)

Fine(x) == 16 * x

Range(s) == {s[i] : i \in DOMAIN s}

----------------------------------------------------------------------------
(* Module constants *)

WorldWidth == 67108864          \* 6378137 * 2 * pi, in box units (2^26)
TolerancesLen == 22             \* range(22)
CutoffWidth == 67192240         \* least whole width w with w * w >= 1.61e15 square metres
DefaultSrid == 900913
DefaultSimplifyUntil == 16

\* tolerances[zoom] = 6378137 * 2 * pi / 2 ** (zoom + 8), in sixteenths of a box unit
tolerances(zoom) == Fine(WorldWidth) \div Pow2(zoom + 8)

\* indexing the tolerances list: IndexError outside range(22)
TolerancesInRange(zoom) == zoom >= 0 /\ zoom < TolerancesLen

\* oscimap.padding, oscimap.extents, mapbox.padding, mapbox.extents
oscimap_padding == 5
oscimap_extents == 4096
mapbox_padding == 0
mapbox_extents == 4096

----------------------------------------------------------------------------
(* Query templates.  A template is its text, a sequence of tokens; the     *)
(* token "!bbox!" is the one build_query and query_columns replace.        *)

BBoxToken == "!bbox!"

RoadsQuery == <<"SELECT way AS __geometry__, name FROM roads WHERE way &&", BBoxToken>>
WaterQuery == <<"SELECT way AS __geometry__, osm_id AS __id__ FROM water">>
EmptyText == <<>>

Templates == {RoadsQuery, WaterQuery}

HasBBoxToken(subquery) == \E i \in DOMAIN subquery : subquery[i] = BBoxToken

\* str.replace('!bbox!', bbox): every occurrence of the token becomes the box
Replace(subquery, bbox) ==
    [i \in DOMAIN subquery |->
        IF subquery[i] = BBoxToken
        THEN [text |-> "", box |-> bbox]
        ELSE [text |-> subquery[i], box |-> <<>>]]

----------------------------------------------------------------------------
(* build_query *)

Width(bounds) == bounds[3] - bounds[1]
Height(bounds) == bounds[4] - bounds[2]

\* bbox = ST_SetSRID(ST_MakeBox2D(ST_MakePoint(x, y), ST_MakePoint(x, y)), srid)
PaddedBBox(srid, bounds, padding) ==
    << Fine(bounds[1]) - padding, Fine(bounds[2]) - padding,
       Fine(bounds[3]) + padding, Fine(bounds[4]) + padding, srid >>

\* the geometry expression: the wrappers applied to q.__geometry__, innermost first
GeomExpr(bbox, bounds, tolerance, is_geo, is_clipped, scale) ==
    (IF is_clipped THEN << [fn |-> "ST_Intersection", args |-> bbox] >> ELSE <<>>)
    \o (IF tolerance # None
        THEN << [fn |-> "ST_SimplifyPreserveTopology", args |-> <<TheValue(tolerance)>>] >>
        ELSE <<>>)
    \o (IF is_geo THEN << [fn |-> "ST_Transform", args |-> <<4326>>] >> ELSE <<>>)
    \o (IF scale # None /\ TheValue(scale) # 0
        THEN << [fn |-> "ST_TransScale",
                 args |-> << -Fine(bounds[1]), -Fine(bounds[2]),
                             TheValue(scale), Fine(bounds[3]), Fine(bounds[1]),
                             TheValue(scale), Fine(bounds[4]), Fine(bounds[2]) >>] >>
        ELSE <<>>)

\* the select list: the columns but __geometry__, and a hashed __id__ when there is none
\* (the order of the list is the iteration order of a set: not modelled)
SelectColumns(subcolumns) ==
    {[col |-> c, expr |-> "q.col"] : c \in subcolumns \ {"__geometry__"}}
    \cup (IF "__id__" \notin subcolumns
          THEN {[col |-> "__id__", expr |-> "Substr(MD5(ST_AsBinary(q.__geometry__)), 1, 10)"]}
          ELSE {})

\* WHERE ST_IsValid(q.__geometry__) AND q.__geometry__ && bbox AND ST_Intersects(q.__geometry__, bbox)
DropExactIntersects(bbox) ==
    << [fn |-> "ST_IsValid", args |-> <<>>],
       [fn |-> "&&", args |-> bbox] >>

WhereClause(bbox) ==
    << [fn |-> "ST_IsValid", args |-> <<>>],
       [fn |-> "&&", args |-> bbox],
       [fn |-> "ST_Intersects", args |-> bbox] >>

\* the filter box is the padded box
FilterBox(srid, bounds, padding) == PaddedBBox(srid, bounds, padding)

build_query(srid, subquery, subcolumns, bounds, tolerance, is_geo, is_clipped, padding, scale) ==
    IF subcolumns = None
    THEN [raised |-> "TypeError", query |-> None]
    ELSE IF "__geometry__" \notin TheValue(subcolumns)
    THEN [raised |-> "Exception", query |-> None]
    ELSE [raised |-> "",
          query |-> Some(
            [columns  |-> SelectColumns(TheValue(subcolumns)),
             geom     |-> GeomExpr(PaddedBBox(srid, bounds, padding), bounds,
                                   tolerance, is_geo, is_clipped, scale),
             subquery |-> Replace(subquery, PaddedBBox(srid, bounds, padding)),
             where    |-> WhereClause(FilterBox(srid, bounds, padding))])]

----------------------------------------------------------------------------
(* The database.  table[t] says what template t selects: nothing at all    *)
(* when not populated; otherwise, where the query restricts to a box, rows *)
(* as soon as the box is wider than W (in box units).  cols are the        *)
(* columns of its rows; rows are what the synthesized tile query returns.  *)

\* the template a substituted subquery came from
TemplateOf(subquery) ==
    [i \in DOMAIN subquery |->
        IF subquery[i].box # <<>> THEN BBoxToken ELSE subquery[i].text]

\* db.execute(query + '\n LIMIT 1'); db.fetchone() is not None
ProbeHasRow(tbl, subquery, bounds) ==
    /\ subquery \in DOMAIN tbl
    /\ tbl[subquery].populated
    /\ (HasBBoxToken(subquery) => Abs(Width(bounds)) > tbl[subquery].W)

\* db.execute(query); db.fetchall() for a query that build_query made
SelectRows(tbl, query) ==
    LET t == TemplateOf(query.subquery)
        w == query.where[2].args[3] - query.where[2].args[1]
    IN IF t \in DOMAIN tbl /\ tbl[t].populated /\ w > Fine(tbl[t].W)
       THEN tbl[t].rows
       ELSE <<>>

----------------------------------------------------------------------------
(* Connection: the context manager.  A failure is injected at one step of  *)
(* a call: fail.step names the step, fail.at the probe it strikes.         *)

FailSteps == {"none", "connect", "cursor", "execute", "fetch", "row"}
NoFail == [step |-> "none", at |-> 1]
Fails == {NoFail}
         \cup [step : {"connect", "cursor", "row"}, at : {1}]
         \cup [step : {"execute", "fetch"}, at : 1..MaxFailAt]

\* __enter__: connect(**dbinfo).cursor(...).  entered: the with body runs;
\* opened: connect returned a connection
Connection_enter(fail) ==
    [entered |-> fail.step \notin {"connect", "cursor"},
     opened  |-> IF fail.step = "connect" THEN 0 ELSE 1,
     raised  |-> IF fail.step \in {"connect", "cursor"} THEN "OperationalError" ELSE ""]

\* __exit__ runs when the with body was entered, however it ends:
\* self.db.connection.close()
Connection_exit(enter) == IF enter.entered THEN 1 ELSE 0

----------------------------------------------------------------------------
(* query_columns *)

\* while (abs(bounds[2] - bounds[0]) * abs(bounds[2] - bounds[0])) < 1.61e15
\* (the squares overflow the model's integers: the widths are compared)
BelowCutoff(bounds) == Abs(Width(bounds)) < CutoffWidth

\* bounds grown by 3.5 times its width and height on every side
ExpandFourfold(bounds) ==
    << bounds[1] - (3 * Width(bounds)) \div 2,
       bounds[2] - (3 * Height(bounds)) \div 2,
       bounds[3] + (3 * Width(bounds)) \div 2,
       bounds[4] + (3 * Height(bounds)) \div 2 >>

Expand(bounds) ==
    << bounds[1] - (7 * Width(bounds)) \div 2,
       bounds[2] - (7 * Height(bounds)) \div 2,
       bounds[3] + (7 * Width(bounds)) \div 2,
       bounds[4] + (7 * Height(bounds)) \div 2 >>

\* the loop; n probes were executed so far.  Falling off the loop returns None.
RECURSIVE ProbeLoop(_, _, _, _, _)
ProbeLoop(tbl, subquery, bounds, n, fail) ==
    IF ~BelowCutoff(bounds)
    THEN [raised |-> "", columns |-> None, probes |-> n, bounds |-> bounds]
    ELSE IF fail.step \in {"execute", "fetch"} /\ fail.at = n + 1
    THEN [raised |-> "DatabaseError", columns |-> None, probes |-> n + 1, bounds |-> bounds]
    ELSE IF ~ProbeHasRow(tbl, subquery, bounds)
    THEN ProbeLoop(tbl, subquery, Expand(bounds), n + 1, fail)
    ELSE [raised |-> "", columns |-> Some(tbl[subquery].cols),
          probes |-> n + 1, bounds |-> bounds]

query_columns(tbl, subquery, bounds, fail) ==
    LET enter == Connection_enter(fail)
        loop  == ProbeLoop(tbl, subquery, bounds, 0, fail)
    IN IF ~enter.entered
       THEN [raised |-> enter.raised, columns |-> None, probes |-> 0, bounds |-> bounds,
             opened |-> enter.opened, closed |-> 0]
       ELSE [raised |-> loop.raised, columns |-> loop.columns, probes |-> loop.probes,
             bounds |-> loop.bounds,
             opened |-> enter.opened, closed |-> Connection_exit(enter)]

----------------------------------------------------------------------------
(* get_features *)

\* prop: the columns but __geometry__ and __id__, nulls left out
Properties(row) ==
    LET keys == {k \in DOMAIN row : k \notin {"__geometry__", "__id__"} /\ row[k] # None}
    IN [k \in keys |-> TheValue(row[k])]

\* one feature per row whose geometry is not null, in the order of the rows
RECURSIVE FeaturesOf(_)
FeaturesOf(rows) ==
    IF rows = <<>> THEN <<>>
    ELSE LET row == Head(rows)
         IN (IF row["__geometry__"] = None
             THEN <<>>
             ELSE IF "__id__" \in DOMAIN row
             THEN << [wkb |-> TheValue(row["__geometry__"]), prop |-> Properties(row),
                      id |-> row["__id__"]] >>
             ELSE << [wkb |-> TheValue(row["__geometry__"]), prop |-> Properties(row),
                      id |-> None] >>)
            \o FeaturesOf(Tail(rows))

get_features(tbl, query, fail) ==
    LET enter == Connection_enter(fail)
        rows  == SelectRows(tbl, query)
        bodyRaised ==
            IF fail.step \in {"execute", "fetch"} THEN "DatabaseError"
            ELSE IF fail.step = "row" /\ rows # <<>> THEN "TypeError"
            ELSE ""
    IN IF ~enter.entered
       THEN [raised |-> enter.raised, features |-> <<>>, queries |-> 0,
             opened |-> enter.opened, closed |-> 0]
       ELSE [raised |-> bodyRaised,
             features |-> IF bodyRaised = "" THEN FeaturesOf(rows) ELSE <<>>,
             queries |-> 1,
             opened |-> enter.opened, closed |-> Connection_exit(enter)]

----------------------------------------------------------------------------
(* Provider *)

Formats == {"MVT", "JSON", "TopoJSON", "OpenScienceMap", "Mapbox"}

\* coord.down() and coord.right() through layer.projection.coordinateProj:
\* the lower left and upper right corners of the tile
TileBounds(coord) ==
    LET w == WorldWidth \div Pow2(coord.zoom)
        xmin == coord.column * w - WorldWidth \div 2
        ymin == WorldWidth \div 2 - (coord.row + 1) * w
    IN << xmin, ymin, xmin + w, ymin + w >>

\* try: self.queries[coord.zoom]  except IndexError: self.queries[-1]
ResolveFirst(queries, zoom) == queries[1]

ResolveQuery(queries, zoom) ==
    IF zoom + 1 <= Len(queries) THEN queries[zoom + 1] ELSE queries[Len(queries)]

\* not query
IsFalsy(query) == query = None \/ TheValue(query) = EmptyText

\* self.simplify * tolerances[coord.zoom] if coord.zoom < self.simplify_until else None
\* (simplify counts halves)
AlwaysSimplify(simplify, simplify_until, zoom) ==
    Some((simplify * tolerances(zoom)) \div 2)

Tolerance(simplify, simplify_until, zoom) ==
    IF zoom < simplify_until
    THEN Some((simplify * tolerances(zoom)) \div 2)
    ELSE None

\* Response.__init__: the five query variants, four calls of build_query
Response_init(srid, subquery, columns, bounds, tolerance, zoom, clip, coord, layer_name) ==
    LET geo  == build_query(srid, subquery, columns, bounds, tolerance, TRUE, clip, 0, None)
        merc == build_query(srid, subquery, columns, bounds, tolerance, FALSE, clip, 0, None)
        osci == build_query(srid, subquery, columns, bounds, tolerance, FALSE, clip,
                            oscimap_padding * tolerances(coord.zoom), Some(oscimap_extents))
        mbox == build_query(srid, subquery, columns, bounds, tolerance, FALSE, clip,
                            mapbox_padding * tolerances(coord.zoom), Some(mapbox_extents))
    IN IF geo.raised # ""
       THEN [raised |-> geo.raised, tile |-> None]
       ELSE IF ~TolerancesInRange(coord.zoom)
       THEN [raised |-> "IndexError", tile |-> None]
       ELSE [raised |-> "",
             tile |-> Some(
               [kind |-> "Response", subquery |-> subquery, columns |-> columns,
                bounds |-> bounds, tolerance |-> tolerance, zoom |-> zoom, clip |-> clip,
                coord |-> coord, layer_name |-> layer_name,
                query |-> [f \in Formats |->
                    CASE f \in {"TopoJSON", "JSON"} -> TheValue(geo.query)
                      [] f = "MVT" -> TheValue(merc.query)
                      [] f = "OpenScienceMap" -> TheValue(osci.query)
                      [] f = "Mapbox" -> TheValue(mbox.query)]])]

EmptyResponse_init(bounds) == [kind |-> "EmptyResponse", bounds |-> bounds]

\* Provider.renderTile.  The outcome, the cache as the call leaves it, and what
\* the call did to the database.
renderTile(self, layer_name, tbl, coord, fail) ==
    LET query   == ResolveQuery(self.queries, coord.zoom)
        bounds  == TileBounds(coord)
        subq    == TheValue(query)
        cached  == subq \in DOMAIN self.columns
        qc      == query_columns(tbl, subq, bounds, fail)
        columns == IF cached THEN self.columns
                   ELSE [t \in DOMAIN self.columns \cup {subq} |->
                            IF t = subq THEN qc.columns ELSE self.columns[t]]
        init    == Response_init(self.srid, subq, columns[subq], bounds,
                                 Tolerance(self.simplify, self.simplify_until, coord.zoom),
                                 coord.zoom, self.clip, coord, layer_name)
        quiet   == [query |-> query, probed |-> FALSE, probes |-> 0, opened |-> 0, closed |-> 0]
        probed  == [query |-> query, probed |-> ~cached,
                    probes |-> IF cached THEN 0 ELSE qc.probes,
                    opened |-> IF cached THEN 0 ELSE qc.opened,
                    closed |-> IF cached THEN 0 ELSE qc.closed]
    IN IF IsFalsy(query)
       THEN [raised |-> "", tile |-> Some(EmptyResponse_init(bounds)),
             columns |-> self.columns, did |-> quiet]
       ELSE IF ~cached /\ qc.raised # ""
       THEN [raised |-> qc.raised, tile |-> None, columns |-> self.columns, did |-> probed]
       ELSE IF coord.zoom < self.simplify_until /\ ~TolerancesInRange(coord.zoom)
       THEN [raised |-> "IndexError", tile |-> None, columns |-> columns, did |-> probed]
       ELSE [raised |-> init.raised, tile |-> init.tile, columns |-> columns, did |-> probed]

\* Provider.getTypeByExtension
Provider_getTypeByExtension(extension) ==
    CASE extension = "mvt" -> [raised |-> "", mime |-> "application/octet-stream+mvt", format |-> "MVT"]
      [] extension = "json" -> [raised |-> "", mime |-> "application/json", format |-> "JSON"]
      [] extension = "topojson" -> [raised |-> "", mime |-> "application/json", format |-> "TopoJSON"]
      [] extension = "vtm" -> [raised |-> "", mime |-> "image/png", format |-> "OpenScienceMap"]
      [] extension = "mapbox" -> [raised |-> "", mime |-> "image/png", format |-> "Mapbox"]
      [] OTHER -> [raised |-> "ValueError", mime |-> "", format |-> ""]

----------------------------------------------------------------------------
(* Response.save and EmptyResponse.save.  encoded is the call made to the  *)
(* format's encoder: its name, the features, and the context arguments     *)
(* that follow them.                                                       *)

NoWork == [queries |-> 0, opened |-> 0, closed |-> 0]

\* the else branch of the dispatch: ValueError(format + " is not supported")
NotSupported(format) ==
    [raised |-> "ValueError", names |-> {format}, encoded |-> None, did |-> NoWork]

Response_save(self, tbl, format, fail) ==
    LET got == get_features(tbl, self.query[format], fail)
        did == [queries |-> got.queries, opened |-> got.opened, closed |-> got.closed]
        enc(encoder, context) ==
            [raised |-> "", names |-> {},
             encoded |-> Some([encoder |-> encoder, features |-> got.features,
                               context |-> context]),
             did |-> did]
    IN IF format \notin DOMAIN self.query
       THEN [raised |-> "KeyError", names |-> {format}, encoded |-> None, did |-> NoWork]
       ELSE IF got.raised # ""
       THEN [raised |-> got.raised, names |-> {}, encoded |-> None, did |-> did]
       ELSE CASE format = "MVT" -> enc("mvt.encode", <<>>)
              [] format = "JSON" ->
                    enc("geojson.encode", << [arg |-> "zoom", val |-> self.zoom],
                                             [arg |-> "clip", val |-> self.clip] >>)
              [] format = "TopoJSON" ->
                    enc("topojson.encode", << [arg |-> "bounds", val |-> self.bounds],
                                              [arg |-> "clip", val |-> self.clip] >>)
              [] format = "OpenScienceMap" ->
                    enc("oscimap.encode", << [arg |-> "coord", val |-> self.coord],
                                             [arg |-> "layer_name", val |-> self.layer_name] >>)
              [] format = "Mapbox" ->
                    enc("mapbox.encode", << [arg |-> "coord", val |-> self.coord],
                                            [arg |-> "layer_name", val |-> self.layer_name] >>)
              [] OTHER -> NotSupported(format)

EmptyResponse_save(self, format) ==
    LET enc(encoder, context) ==
            [raised |-> "", names |-> {},
             encoded |-> Some([encoder |-> encoder, features |-> <<>>, context |-> context]),
             did |-> NoWork]
    IN CASE format = "MVT" -> enc("mvt.encode", <<>>)
         [] format = "JSON" ->
               enc("geojson.encode", << [arg |-> "zoom", val |-> 0],
                                        [arg |-> "clip", val |-> FALSE] >>)
         [] format = "TopoJSON" ->
               enc("topojson.encode", << [arg |-> "bounds", val |-> self.bounds],
                                         [arg |-> "clip", val |-> FALSE] >>)
         [] format = "OpenScienceMap" ->
               enc("oscimap.encode", << [arg |-> "coord", val |-> None] >>)
         [] format = "Mapbox" ->
               enc("mapbox.encode", << [arg |-> "coord", val |-> None] >>)
         [] OTHER -> NotSupported(format)

----------------------------------------------------------------------------
(* MultiProvider and MultiResponse.  An injected failure strikes one       *)
(* sub-layer: inj.pos is its place in names, inj.phase the database call   *)
(* ("columns": query_columns, "features": get_features).                   *)

FailFor(inj, i, phase) ==
    IF inj.pos = i /\ inj.phase = phase THEN inj.fail ELSE NoFail

NoInjection == [pos |-> 0, phase |-> "columns", fail |-> NoFail]

Tally(did, more) ==
    [probes  |-> did.probes + more.probes,
     queries |-> did.queries + more.queries,
     opened  |-> did.opened + more.opened,
     closed  |-> did.closed + more.closed]

NoTally == [probes |-> 0, queries |-> 0, opened |-> 0, closed |-> 0]

RenderTally(r) ==
    [probes |-> r.did.probes, queries |-> 0, opened |-> r.did.opened, closed |-> r.did.closed]

SaveTally(s) ==
    [probes |-> 0, queries |-> s.did.queries, opened |-> s.did.opened, closed |-> s.did.closed]

WithColumns(lays, name, columns) ==
    [lays EXCEPT ![name] = [@ EXCEPT !.columns = columns]]

\* MultiProvider.getTypeByExtension
MultiProvider_getTypeByExtension(extension) ==
    CASE extension = "json" -> [raised |-> "", mime |-> "application/json", format |-> "JSON"]
      [] extension = "topojson" -> [raised |-> "", mime |-> "application/json", format |-> "TopoJSON"]
      [] extension = "vtm" -> [raised |-> "", mime |-> "image/png", format |-> "OpenScienceMap"]
      [] extension = "mapbox" -> [raised |-> "", mime |-> "image/png", format |-> "Mapbox"]
      [] OTHER -> [raised |-> "ValueError", mime |-> "", format |-> ""]

\* format.lower()
Lower(format) == IF format = "JSON" THEN "json" ELSE "topojson"

\* json.loads(body)['type'] of what the sub-layer's encoder wrote
BodyType(encoder) == IF encoder = "geojson.encode" THEN "FeatureCollection" ELSE "Topology"

\* TileStache.getTile(layer, coord, extension): the host's entry point, which
\* renders the sub-layer's tile, saves it in the extension's format and
\* returns the mime-type and the body.  Here: what it returns, the tile
\* rendered (r) and saved (s).
getTileSaved(type, r, s) ==
    IF r.raised # ""
    THEN [raised |-> r.raised, mime |-> "", body |-> None,
          columns |-> r.columns, did |-> RenderTally(r)]
    ELSE IF s.raised # ""
    THEN [raised |-> s.raised, mime |-> "", body |-> None,
          columns |-> r.columns, did |-> Tally(RenderTally(r), SaveTally(s))]
    ELSE [raised |-> "", mime |-> type.mime,
          body |-> Some([type |-> BodyType(TheValue(s.encoded).encoder),
                         features |-> TheValue(s.encoded).features]),
          columns |-> r.columns, did |-> Tally(RenderTally(r), SaveTally(s))]

\* the tile rendered (r), its save in the format of the extension
getTileRendered(type, r, tbl, failFeatures) ==
    getTileSaved(type, r,
                 IF r.raised # "" THEN NoWork
                 ELSE IF TheValue(r.tile).kind = "EmptyResponse"
                 THEN EmptyResponse_save(TheValue(r.tile), type.format)
                 ELSE Response_save(TheValue(r.tile), tbl, type.format, failFeatures))

getTile(lays, tbl, name, coord, extension, failColumns, failFeatures) ==
    getTileRendered(Provider_getTypeByExtension(extension),
                    renderTile(lays[name], name, tbl, coord, failColumns),
                    tbl, failFeatures)

RECURSIVE FetchLoop(_, _, _, _, _, _, _, _)

\* the i-th getTile has returned or raised (g)
FetchStep(lays, tbl, names, i, coord, format, inj, acc, g) ==
    LET name == names[i]
        next == [tiles  |-> Append(acc.tiles, [mime |-> g.mime, body |-> g.body]),
                 did    |-> Tally(acc.did, g.did),
                 events |-> Append(acc.events, [ev |-> "getTile", layer |-> name])]
    IN IF g.raised # ""
       THEN [raised |-> g.raised, names |-> {}, layers |-> WithColumns(lays, name, g.columns),
             tiles |-> <<>>, did |-> next.did, events |-> next.events]
       ELSE FetchLoop(WithColumns(lays, name, g.columns), tbl, names, i + 1,
                      coord, format, inj, next)

\* [getTile(layer, self.coord, format.lower()) for layer in layers], from the i-th on
FetchLoop(lays, tbl, names, i, coord, format, inj, acc) ==
    IF i > Len(names)
    THEN [raised |-> "", names |-> {}, layers |-> lays, tiles |-> acc.tiles,
          did |-> acc.did, events |-> acc.events]
    ELSE FetchStep(lays, tbl, names, i, coord, format, inj, acc,
                   getTile(lays, tbl, names[i], coord, Lower(format),
                           FailFor(inj, i, "columns"), FailFor(inj, i, "features")))

NoTiles == [tiles |-> <<>>, did |-> NoTally, events |-> <<>>]

\* the names that are not in config.layers
UnknownLayers(lays, names) == Range(names) \ DOMAIN lays

\* bad_mimes and bad_types, of the tiles fetched
CheckTiles(format, fetch) ==
    LET expected == IF Lower(format) = "json" THEN "FeatureCollection" ELSE "Topology"
        bad_mimes == {i \in DOMAIN fetch.tiles : fetch.tiles[i].mime # "application/json"}
        bad_types == {i \in DOMAIN fetch.tiles :
                         TheValue(fetch.tiles[i].body).type # expected}
    IN IF fetch.raised # "" THEN fetch
       ELSE IF bad_mimes # {} \/ bad_types # {}
       THEN [fetch EXCEPT !.raised = "KnownUnknown", !.tiles = <<>>]
       ELSE fetch

\* MultiResponse.get_tiles
CheckWhileFetching(lays, tbl, names, coord, format, inj) ==
    LET fetch == FetchLoop(lays, tbl, SelectSeq(names, LAMBDA n : n \in DOMAIN lays), 1,
                           coord, format, inj, NoTiles)
    IN IF UnknownLayers(lays, names) # {} /\ fetch.raised = ""
       THEN [fetch EXCEPT !.raised = "KnownUnknown",
                          !.names = UnknownLayers(lays, names), !.tiles = <<>>]
       ELSE fetch

get_tiles(lays, tbl, names, coord, format, inj) ==
    IF UnknownLayers(lays, names) # {}
    THEN [raised |-> "KnownUnknown", names |-> UnknownLayers(lays, names), layers |-> lays,
          tiles |-> <<>>, did |-> NoTally, events |-> <<>>]
    ELSE CheckTiles(format, FetchLoop(lays, tbl, names, 1, coord, format, inj, NoTiles))

\* feature_layers.append({'name': layer.name(), 'features': get_features(...)})
KeepLastFeatureLayer(collected, name, features) ==
    << [name |-> name, features |-> features] >>

AppendFeatureLayer(collected, name, features) ==
    Append(collected, [name |-> name, features |-> features])

RECURSIVE FeatureLoop(_, _, _, _, _, _, _, _)

\* the i-th sub-layer's get_features has returned or raised (got)
FeatureFetched(lays, tbl, names, i, coord, format, inj, acc, got) ==
    LET name == names[i]
        fetched == [feature_layers |->
                        AppendFeatureLayer(acc.feature_layers, name, got.features),
                    did    |-> Tally(acc.did,
                                     [probes |-> 0, queries |-> got.queries,
                                      opened |-> got.opened, closed |-> got.closed]),
                    events |-> Append(acc.events, [ev |-> "get_features", layer |-> name])]
    IN IF got.raised # ""
       THEN [raised |-> got.raised, names |-> {}, layers |-> lays,
             feature_layers |-> <<>>, did |-> fetched.did, events |-> fetched.events]
       ELSE FeatureLoop(lays, tbl, names, i + 1, coord, format, inj, fetched)

\* the i-th sub-layer's renderTile has returned or raised (r)
FeatureStep(lays, tbl, names, i, coord, format, inj, acc, r) ==
    LET name == names[i]
        rendered == [feature_layers |-> acc.feature_layers,
                     did    |-> Tally(acc.did, RenderTally(r)),
                     events |-> Append(acc.events, [ev |-> "renderTile", layer |-> name])]
        lays2 == WithColumns(lays, name, r.columns)
    IN IF r.raised # ""
       THEN [raised |-> r.raised, names |-> {}, layers |-> lays2,
             feature_layers |-> <<>>, did |-> rendered.did, events |-> rendered.events]
       ELSE IF TheValue(r.tile).kind = "EmptyResponse"
       THEN FeatureLoop(lays2, tbl, names, i + 1, coord, format, inj, rendered)
       ELSE FeatureFetched(lays2, tbl, names, i, coord, format, inj, rendered,
                           get_features(tbl, TheValue(r.tile).query[format],
                                        FailFor(inj, i, "features")))

\* the OpenScienceMap and Mapbox branches: the loop over the layers, from the i-th on
FeatureLoop(lays, tbl, names, i, coord, format, inj, acc) ==
    IF i > Len(names)
    THEN [raised |-> "", names |-> {}, layers |-> lays,
          feature_layers |-> acc.feature_layers, did |-> acc.did, events |-> acc.events]
    ELSE FeatureStep(lays, tbl, names, i, coord, format, inj, acc,
                     renderTile(lays[names[i]], names[i], tbl, coord,
                                FailFor(inj, i, "columns")))

\* layers = [self.config.layers[name] for name in self.names], then the loop
feature_layers(lays, tbl, names, coord, format, inj) ==
    LET first == CHOOSE i \in DOMAIN names :
                    names[i] \notin DOMAIN lays /\ \A j \in 1..(i - 1) : names[j] \in DOMAIN lays
    IN IF UnknownLayers(lays, names) # {}
       THEN [raised |-> "KeyError", names |-> {names[first]}, layers |-> lays,
             feature_layers |-> <<>>, did |-> NoTally, events |-> <<>>]
       ELSE FeatureLoop(lays, tbl, names, 1, coord, format, inj,
                        [feature_layers |-> <<>>, did |-> NoTally, events |-> <<>>])

\* topojson.merge(out, self.names, self.get_tiles(format), self.config, self.coord)
\* and geojson.merge likewise: the tiles fetched, or get_tiles raised
MergeTiles(names, coord, format, tiles) ==
    [raised |-> tiles.raised, names |-> tiles.names, layers |-> tiles.layers,
     did |-> tiles.did,
     events |-> IF tiles.raised = ""
                THEN Append(tiles.events, [ev |-> "merge", layer |-> ""])
                ELSE tiles.events,
     merged |-> IF tiles.raised = ""
                THEN Some([merge |-> IF format = "JSON" THEN "geojson.merge"
                                     ELSE "topojson.merge",
                           names |-> names, tiles |-> tiles.tiles,
                           feature_layers |-> <<>>, coord |-> coord])
                ELSE None]

\* oscimap.merge(out, feature_layers, self.coord) and mapbox.merge likewise:
\* the feature layers collected, or the loop raised
MergeFeatures(coord, format, feats) ==
    [raised |-> feats.raised, names |-> feats.names, layers |-> feats.layers,
     did |-> feats.did,
     events |-> IF feats.raised = ""
                THEN Append(feats.events, [ev |-> "merge", layer |-> ""])
                ELSE feats.events,
     merged |-> IF feats.raised = ""
                THEN Some([merge |-> IF format = "OpenScienceMap" THEN "oscimap.merge"
                                     ELSE "mapbox.merge",
                           names |-> <<>>, tiles |-> <<>>,
                           feature_layers |-> feats.feature_layers, coord |-> coord])
                ELSE None]

\* MultiResponse.save.  merged is the call made to the format's merge routine.
MultiResponse_save(lays, tbl, names, coord, format, inj) ==
    CASE format \in {"TopoJSON", "JSON"} ->
            MergeTiles(names, coord, format,
                       get_tiles(lays, tbl, names, coord, format, inj))
      [] format \in {"OpenScienceMap", "Mapbox"} ->
            MergeFeatures(coord, format,
                          feature_layers(lays, tbl, names, coord, format, inj))
      [] OTHER ->
            [raised |-> "ValueError", names |-> {format}, layers |-> lays, did |-> NoTally,
             events |-> <<>>, merged |-> None]

----------------------------------------------------------------------------
(* The configuration and the requests *)

LayerNames == {"a", "b", "c"}

RECURSIVE SeqsUpTo(_, _)
SeqsUpTo(S, n) ==
    IF n = 0 THEN {<<>>}
    ELSE LET shorter == SeqsUpTo(S, n - 1)
         IN shorter \cup {Append(s, x) : s \in {t \in shorter : Len(t) = n - 1}, x \in S}

\* the queries lists: null, an empty text, or a template, for each zoom
QueryEntries == {None, Some(EmptyText), Some(RoadsQuery), Some(WaterQuery)}
QueryLists == SeqsUpTo(QueryEntries, MaxQueries) \ {<<>>}

NameLists == SeqsUpTo(LayerNames, MaxNames) \ {<<>>}

Coord(zoom) == [zoom |-> zoom, column |-> 0, row |-> 0]

\* the tiles asked for: the first of each zoom
Coords(zooms) == {Coord(zoom) : zoom \in zooms}
TileCoords == Coords(0..MaxTileZoom)
ZoomCoords == Coords(0..MaxZoom)
MultiCoords == Coords(0..1)

SaveFormats == Formats \cup {"svg"}

EmptyCache == [t \in {} |-> None]

\* Provider.__init__, the queries already read from their files and URLs
Provider_init(queries, clip, srid, simplify, simplify_until) ==
    [queries |-> queries, clip |-> clip, srid |-> srid, simplify |-> simplify,
     simplify_until |-> simplify_until, columns |-> EmptyCache]

\* what the tables hold
Road == [__geometry__ |-> Some("wkb:road"), __id__ |-> Some("h:road"), name |-> Some("Main St")]
Unnamed == [__geometry__ |-> Some("wkb:track"), __id__ |-> Some("h:track"), name |-> None]
Collapsed == [__geometry__ |-> None, __id__ |-> Some("h:none"), name |-> Some("Dot")]
Lake == [__geometry__ |-> Some("wkb:lake"), __id__ |-> Some("17")]

RoadsCols == {"__geometry__", "name"}
WaterCols == {"__geometry__", "__id__"}

\* no roads at all; roads everywhere; roads in boxes wider than half the world
\* only; the same, the tile query finding none
RoadsTables ==
    { [populated |-> FALSE, W |-> 0, cols |-> RoadsCols, rows |-> <<>>],
      [populated |-> TRUE, W |-> 0, cols |-> RoadsCols, rows |-> <<Collapsed, Road, Unnamed>>],
      [populated |-> TRUE, W |-> WorldWidth \div 2, cols |-> RoadsCols, rows |-> <<Road>>],
      [populated |-> TRUE, W |-> 0, cols |-> RoadsCols, rows |-> <<>>] }

WaterTables ==
    { [populated |-> TRUE, W |-> 0, cols |-> WaterCols, rows |-> <<Lake>>],
      [populated |-> FALSE, W |-> 0, cols |-> WaterCols, rows |-> <<>>] }

TableOf(roads, water) == [t \in Templates |-> IF t = RoadsQuery THEN roads ELSE water]

----------------------------------------------------------------------------
(* The state machine *)

NoResponse == [raised |-> "", tile |-> None]
NoCall == [op |-> "none"]

\* no request is in flight
NoThreads == <<>>

\* layer.provider.renderTile(width, height, srs, coord)
RenderTile(name, coord, fail) ==
    LET r == renderTile(layers[name], name, table, coord, fail)
    IN /\ layers' = WithColumns(layers, name, r.columns)
       /\ resp' = [raised |-> r.raised, tile |-> r.tile]
       /\ call' = [op |-> "renderTile", layer |-> name, coord |-> coord,
                   raised |-> r.raised, did |-> r.did]
       /\ UNCHANGED <<multi, table, threads>>

\* tile.save(out, format) on the response renderTile returned
Save(format, fail) ==
    /\ resp.tile # None
    /\ LET tile == TheValue(resp.tile)
           s == IF tile.kind = "EmptyResponse"
                THEN EmptyResponse_save(tile, format)
                ELSE Response_save(tile, table, format, fail)
       IN call' = [op |-> "save", kind |-> tile.kind, format |-> format,
                   raised |-> s.raised, names |-> s.names, encoded |-> s.encoded,
                   did |-> s.did]
    /\ UNCHANGED <<layers, multi, table, resp, threads>>

\* MultiProvider.renderTile(width, height, srs, coord).save(out, format)
MultiSave(coord, format, inj) ==
    LET m == MultiResponse_save(layers, table, multi, coord, format, inj)
    IN /\ layers' = m.layers
       /\ call' = [op |-> "multi.save", coord |-> coord, format |-> format, inj |-> inj,
                   raised |-> m.raised, names |-> m.names, merged |-> m.merged,
                   events |-> m.events, did |-> m.did]
       /\ UNCHANGED <<multi, table, resp, threads>>

----------------------------------------------------------------------------
(* One Provider, its responses saved: the layer "a" of the sample           *)
(* configuration (no query at zoom 0, the roads from zoom 1 on).            *)

Init ==
    /\ layers = [n \in {"a"} |->
                    Provider_init(<<None, Some(RoadsQuery)>>, TRUE, DefaultSrid, 2,
                                  DefaultSimplifyUntil)]
    /\ multi = <<>>
    /\ \E roads \in RoadsTables : table = TableOf(roads, CHOOSE w \in WaterTables : w.populated)
    /\ resp = NoResponse
    /\ threads = NoThreads
    /\ call = NoCall

Next ==
    \/ \E coord \in TileCoords, fail \in Fails : RenderTile("a", coord, fail)
    \/ \E format \in SaveFormats, fail \in Fails : Save(format, fail)

Spec == Init /\ [][Next]_vars

----------------------------------------------------------------------------
(* Claims about one Provider and its responses (Spec) *)

Saved == call.op = "save"
Rendered == call.op = "renderTile"

\* the entry of self.queries the last renderTile resolved, and its cache entry
ResolvedQuery == call.did.query
Exhausted ==
    /\ Rendered
    /\ ~IsFalsy(ResolvedQuery)
    /\ TheValue(ResolvedQuery) \in DOMAIN layers[call.layer].columns
    /\ layers[call.layer].columns[TheValue(ResolvedQuery)] = None

\* C3: on each responder, save with a format name outside the supported set
\* fails with ValueError, and the error names the requested format.
C3_UnsupportedFormatIsValueError ==
    /\ (Saved /\ call.format \notin Formats)
          => (call.raised = "ValueError" /\ call.names = {call.format})
    /\ (call.op = "multi.save" /\ call.format \notin {"JSON", "TopoJSON", "OpenScienceMap", "Mapbox"})
          => (call.raised = "ValueError" /\ call.names = {call.format})

\* the argument names of the context handed to an encoder
ContextShape(encoded) == [i \in DOMAIN encoded.context |-> encoded.context[i].arg]

\* Response.save of a tile whose query returns no row
ZeroRowTile ==
    TheValue(Response_init(DefaultSrid, RoadsQuery, Some(RoadsCols), TileBounds(Coord(1)),
                           None, 1, TRUE, Coord(1), "a").tile)
ZeroRowSave(format) ==
    Response_save(ZeroRowTile,
                  TableOf([populated |-> FALSE, W |-> 0, cols |-> RoadsCols, rows |-> <<>>],
                          [populated |-> FALSE, W |-> 0, cols |-> WaterCols, rows |-> <<>>]),
                  format, NoFail)

\* C6: in every supported format EmptyResponse.save succeeds and calls the
\* encoder Response.save calls for a query without rows, with no features and
\* a context of the same shape.
C6_EmptySaveMatchesZeroRowSave ==
    (Saved /\ call.kind = "EmptyResponse" /\ call.format \in Formats)
       => /\ call.raised = ""
          /\ ZeroRowSave(call.format).raised = ""
          /\ TheValue(call.encoded).encoder = TheValue(ZeroRowSave(call.format).encoded).encoder
          /\ TheValue(call.encoded).features = <<>>
          /\ TheValue(ZeroRowSave(call.format).encoded).features = <<>>
          /\ ContextShape(TheValue(call.encoded))
                = ContextShape(TheValue(ZeroRowSave(call.format).encoded))

\* C7: a renderTile whose column introspection reached the cutoff without a
\* row (on this request or an earlier one for the template) does not fail: it
\* returns a tile that saves, in every format, as a result without features.
C7_ExhaustedIntrospectionIsEmpty ==
    Exhausted
       => /\ call.raised = ""
          /\ resp.tile # None
          /\ \A format \in Formats :
                LET s == IF TheValue(resp.tile).kind = "EmptyResponse"
                         THEN EmptyResponse_save(TheValue(resp.tile), format)
                         ELSE Response_save(TheValue(resp.tile), table, format, NoFail)
                IN s.raised = "" /\ TheValue(s.encoded).features = <<>>

\* C8: every connection a call of query_columns or get_features opened is
\* closed when the call returns or raises.
C8_ConnectionsClosedOnEveryExit ==
    (Rendered \/ Saved) => call.did.opened = call.did.closed

----------------------------------------------------------------------------
(* Zoom resolution: any queries list, simplify and simplify_until, every   *)
(* zoom up to MaxZoom (SpecResolve).                                       *)

SimplifyChoices == {1, 3}
UntilChoices == {0, DefaultSimplifyUntil, MaxZoom + 1}

InitResolve ==
    /\ \E queries \in QueryLists, simplify \in SimplifyChoices, until \in UntilChoices :
          layers = [n \in {"a"} |->
                      Provider_init(queries, TRUE, DefaultSrid, simplify, until)]
    /\ multi = <<>>
    /\ table = TableOf(CHOOSE r \in RoadsTables : r.populated /\ r.W = 0 /\ r.rows # <<>>,
                        CHOOSE w \in WaterTables : w.populated)
    /\ resp = NoResponse
    /\ threads = NoThreads
    /\ call = NoCall

NextResolve == \E coord \in ZoomCoords : RenderTile("a", coord, NoFail)

SpecResolve == InitResolve /\ [][NextResolve]_vars

LastQuery == layers[call.layer].queries[Len(layers[call.layer].queries)]
BeyondList == Rendered /\ call.coord.zoom >= Len(layers[call.layer].queries)

ReturnedKind(kind) ==
    /\ call.raised = ""
    /\ resp.tile # None
    /\ TheValue(resp.tile).kind = kind

\* the columns the cache holds for the resolved template are usable
ColumnsKnown ==
    /\ TheValue(ResolvedQuery) \in DOMAIN layers[call.layer].columns
    /\ layers[call.layer].columns[TheValue(ResolvedQuery)] # None
    /\ "__geometry__" \in TheValue(layers[call.layer].columns[TheValue(ResolvedQuery)])

\* simplify * tolerances[z] below simplify_until, None from there on
\* (tolerances[z] is 2^(22-z) sixteenths, simplify counts halves)
ToleranceRule(zoom) ==
    IF zoom < layers[call.layer].simplify_until
    THEN Some(layers[call.layer].simplify * Pow2(21 - zoom))
    ELSE None

\* C1 (as first stated): at a zoom past the end of the queries list renderTile
\* resolves the last entry; it returns an EmptyResponse exactly when that
\* entry is null, and otherwise a Response built from it, the tolerance
\* decided by the zoom and simplify_until.
C1_LastQueryOrEmptyAtEveryZoom ==
    BeyondList
       => /\ ResolvedQuery = LastQuery
          /\ ReturnedKind("EmptyResponse") <=> (LastQuery = None)
          /\ (LastQuery # None /\ ColumnsKnown)
                => /\ ReturnedKind("Response")
                   /\ TheValue(resp.tile).subquery = TheValue(LastQuery)
                   /\ TheValue(resp.tile).tolerance = ToleranceRule(call.coord.zoom)

\* C1 (amended): at a zoom past the end of the queries list renderTile
\* resolves the last entry.  It returns an EmptyResponse exactly when that
\* entry is null or an empty text.  Otherwise, at a zoom below 22 and with the
\* template's columns known, it returns a Response built from that template,
\* the tolerance decided by the zoom and simplify_until; at zoom 22 or more,
\* or without columns, it raises and returns nothing.
C1_LastQueryRepeats ==
    BeyondList
       => /\ ResolvedQuery = LastQuery
          /\ ReturnedKind("EmptyResponse") <=> IsFalsy(LastQuery)
          /\ ~IsFalsy(LastQuery)
                => IF call.coord.zoom < TolerancesLen /\ ColumnsKnown
                   THEN /\ ReturnedKind("Response")
                        /\ TheValue(resp.tile).subquery = TheValue(LastQuery)
                        /\ TheValue(resp.tile).tolerance = ToleranceRule(call.coord.zoom)
                   ELSE /\ call.raised \in {"IndexError", "TypeError"}
                        /\ resp.tile = None

\* a zoom strictly past a two-entry list whose entries differ, served by the last
C1_Witness ==
    /\ BeyondList
    /\ call.coord.zoom > Len(layers[call.layer].queries)
    /\ layers[call.layer].queries[1] = Some(WaterQuery)
    /\ ReturnedKind("Response")
    /\ TheValue(resp.tile).subquery = RoadsQuery

\* C2 (as first stated): for every zoom, simplify and simplify_until, a
\* renderTile that resolves to a configured query hands its Response the
\* tolerance simplify * tolerances[z] when z < simplify_until, and None otherwise.
C2_ToleranceAtEveryZoom ==
    (Rendered /\ ~IsFalsy(ResolvedQuery) /\ ColumnsKnown)
       => /\ ReturnedKind("Response")
          /\ TheValue(resp.tile).tolerance = ToleranceRule(call.coord.zoom)

\* C2 (amended): the same for the zooms 0..21 that the tolerances table
\* covers; at zoom 22 or more no Response is made: renderTile raises IndexError.
C2_ToleranceByZoom ==
    (Rendered /\ ~IsFalsy(ResolvedQuery) /\ ColumnsKnown)
       => IF call.coord.zoom < TolerancesLen
          THEN /\ ReturnedKind("Response")
               /\ TheValue(resp.tile).tolerance = ToleranceRule(call.coord.zoom)
          ELSE call.raised = "IndexError" /\ resp.tile = None

\* zoom 15 under simplify_until 16 with simplify 1.5: 1.5 * tolerances[15]
C2_Witness ==
    /\ Rendered
    /\ call.coord.zoom = 15
    /\ layers[call.layer].simplify = 3
    /\ layers[call.layer].simplify_until = DefaultSimplifyUntil
    /\ ReturnedKind("Response")
    /\ TheValue(resp.tile).tolerance = Some(192)

----------------------------------------------------------------------------
(* query_columns alone: any table, template and box (SpecProbe).  The box  *)
(* and the template are drawn at the start; Probe makes the call.           *)

\* widths are even, so that 3.5 times a width is a whole number
ProbeWidths == {2, 1024, WorldWidth \div 8, WorldWidth \div 2, WorldWidth,
                CutoffWidth - 2, CutoffWidth, 2 * WorldWidth}
Boxes == {<<x, 0, x + w, h>> : <<x, w, h>> \in
            {<<0 - (v \div 2), v, v>> : v \in ProbeWidths}
            \cup {<<0, v, 2 * v>> : v \in ProbeWidths}}

ProbeThresholds == {0, 1000000, WorldWidth \div 2}
ProbeTables ==
    {TableOf([populated |-> p, W |-> w, cols |-> RoadsCols, rows |-> <<>>],
             [populated |-> p, W |-> w, cols |-> WaterCols, rows |-> <<>>]) :
        p \in BOOLEAN, w \in ProbeThresholds}

InitProbe ==
    /\ layers = [n \in {"a"} |->
                    Provider_init(<<Some(RoadsQuery)>>, TRUE, DefaultSrid, 2,
                                  DefaultSimplifyUntil)]
    /\ multi = <<>>
    /\ table \in ProbeTables
    /\ resp = NoResponse
    /\ threads = NoThreads
    /\ \E subquery \in Templates, bounds \in Boxes :
          call = [op |-> "query_columns", subquery |-> subquery, bounds |-> bounds,
                  done |-> FALSE, raised |-> "", columns |-> None, probes |-> 0,
                  last |-> bounds, opened |-> 0, closed |-> 0]

Probe ==
    /\ call.op = "query_columns"
    /\ ~call.done
    /\ LET r == query_columns(table, call.subquery, call.bounds, NoFail)
       IN call' = [call EXCEPT !.done = TRUE, !.raised = r.raised, !.columns = r.columns,
                               !.probes = r.probes, !.last = r.bounds,
                               !.opened = r.opened, !.closed = r.closed]
    /\ UNCHANGED <<layers, multi, table, resp, threads>>

SpecProbe == InitProbe /\ [][Probe]_vars

Probed == call.op = "query_columns" /\ call.done

RECURSIVE Pow8(_)
Pow8(n) == IF n <= 0 THEN 1 ELSE 8 * Pow8(n - 1)

\* the boxes the loop widened: every probe but the one that returned a row
Expansions == IF call.columns = None THEN call.probes ELSE call.probes - 1

\* a probe of a box w wide returns a row
RowAtWidth(w) == ProbeHasRow(table, call.subquery, <<0, 0, w, w>>)

\* the template returns a row only once the box is wider than W
RowOnlyBeyondW ==
    /\ HasBBoxToken(call.subquery)
    /\ table[call.subquery].populated

\* C9 (as first stated), its last part: for a template that returns a row only
\* once the box is wider than W, W below the cutoff, the loop returns the
\* column set.
C9_ColumnsFoundBelowCutoff ==
    (Probed /\ RowOnlyBeyondW /\ table[call.subquery].W < CutoffWidth
            /\ Width(call.bounds) < CutoffWidth)
       => call.columns = Some(table[call.subquery].cols)

\* C9 (amended): for every box, the loop ends after a bounded number of
\* probes: the cutoff is checked before each probe, each probe
\* without a row widens the box to 8 times its width and height, and the
\* columns returned are those of the first probe with a row.  For a template
\* that returns a row only once the box is wider than W, that is after the
\* least k expansions with width * 8^k > W, provided width * 8^k is still
\* below the cutoff; if not, the loop ends without columns.
C9_ProbeLoopBoundedAndFirstRow ==
    Probed
       => /\ call.raised = ""
          /\ call.probes >= 1 => Width(call.bounds) * Pow8(call.probes - 1) < CutoffWidth
          /\ Width(call.last) = Width(call.bounds) * Pow8(Expansions)
          /\ Height(call.last) = Height(call.bounds) * Pow8(Expansions)
          /\ \A j \in 0..(Expansions - 1) : ~RowAtWidth(Width(call.bounds) * Pow8(j))
          /\ IF call.columns = None
             THEN Width(call.last) >= CutoffWidth
             ELSE /\ call.columns = Some(table[call.subquery].cols)
                  /\ RowAtWidth(Width(call.last))
                  /\ Width(call.last) < CutoffWidth
          /\ RowOnlyBeyondW
                => /\ \A j \in 0..(Expansions - 1) :
                         Width(call.bounds) * Pow8(j) <= table[call.subquery].W
                   /\ call.columns # None => Width(call.last) > table[call.subquery].W

\* a box 1024 wide, rows in boxes wider than 1000000: found after 4 expansions
C9_Witness ==
    /\ Probed
    /\ RowOnlyBeyondW
    /\ Width(call.bounds) = 1024
    /\ table[call.subquery].W = 1000000
    /\ call.probes = 5
    /\ call.columns = Some(RoadsCols)

----------------------------------------------------------------------------
(* build_query alone: any flags, tolerance, padding, scale and column set   *)
(* (SpecBuild).  The arguments are drawn at the start; Build makes the call.*)

BuildColumns == {None, Some({"name"}), Some({"__geometry__"}),
                 Some({"__geometry__", "__id__"}), Some(RoadsCols)}
BuildTolerances == {None, Some(tolerances(14))}
BuildPaddings == {0, Fine(oscimap_padding)}
BuildScales == {None, Some(0), Some(oscimap_extents)}
BuildBounds == {TileBounds(Coord(0)), TileBounds(Coord(2))}

InitBuild ==
    /\ layers = [n \in {"a"} |->
                    Provider_init(<<Some(RoadsQuery)>>, TRUE, DefaultSrid, 2,
                                  DefaultSimplifyUntil)]
    /\ multi = <<>>
    /\ table \in {TableOf([populated |-> FALSE, W |-> 0, cols |-> RoadsCols, rows |-> <<>>],
                          [populated |-> FALSE, W |-> 0, cols |-> WaterCols, rows |-> <<>>])}
    /\ resp = NoResponse
    /\ threads = NoThreads
    /\ \E subquery \in Templates, subcolumns \in BuildColumns, bounds \in BuildBounds,
          tolerance \in BuildTolerances, is_geo \in BOOLEAN, is_clipped \in BOOLEAN,
          padding \in BuildPaddings, scale \in BuildScales :
          call = [op |-> "build_query", srid |-> DefaultSrid, subquery |-> subquery,
                  subcolumns |-> subcolumns, bounds |-> bounds, tolerance |-> tolerance,
                  is_geo |-> is_geo, is_clipped |-> is_clipped, padding |-> padding,
                  scale |-> scale, done |-> FALSE, raised |-> "", query |-> None]

Build ==
    /\ call.op = "build_query"
    /\ ~call.done
    /\ LET r == build_query(call.srid, call.subquery, call.subcolumns, call.bounds,
                            call.tolerance, call.is_geo, call.is_clipped,
                            call.padding, call.scale)
       IN call' = [call EXCEPT !.done = TRUE, !.raised = r.raised, !.query = r.query]
    /\ UNCHANGED <<layers, multi, table, resp, threads>>

SpecBuild == InitBuild /\ [][Build]_vars

Built == call.op = "build_query" /\ call.done

HasGeometryColumn == call.subcolumns # None /\ "__geometry__" \in TheValue(call.subcolumns)

\* the conjuncts of the WHERE clause that call fn
Conjuncts(where, fn) == {i \in DOMAIN where : where[i].fn = fn}

\* the box of the request, widened by the padding on every side
ExpectedBox ==
    << Fine(call.bounds[1]) - call.padding, Fine(call.bounds[2]) - call.padding,
       Fine(call.bounds[3]) + call.padding, Fine(call.bounds[4]) + call.padding,
       call.srid >>

\* C10: for every clip flag, tolerance, is_geo, padding, scale and column set
\* with __geometry__, build_query returns a query whose WHERE clause has
\* exactly one ST_IsValid conjunct and exactly one ST_Intersects conjunct,
\* and every spatial conjunct (ST_Intersects and the && box test that goes
\* with it) is against the padded bounding box; none of the five arguments
\* changes the WHERE clause.
C10_OneValidityAndOneIntersectionFilter ==
    (Built /\ HasGeometryColumn)
       => /\ call.raised = ""
          /\ call.query # None
          /\ LET where == TheValue(call.query).where
             IN /\ Cardinality(Conjuncts(where, "ST_IsValid")) = 1
                /\ Cardinality(Conjuncts(where, "ST_Intersects")) = 1
                /\ \A i \in DOMAIN where :
                      where[i].fn \in {"ST_IsValid", "&&", "ST_Intersects"}
                /\ \A i \in DOMAIN where :
                      where[i].fn \in {"&&", "ST_Intersects"}
                         => where[i].args = ExpectedBox

\* clipped, simplified, padded and scaled at once
C10_Witness ==
    /\ Built
    /\ HasGeometryColumn
    /\ call.is_clipped
    /\ call.tolerance # None
    /\ call.padding > 0
    /\ call.scale = Some(oscimap_extents)
    /\ call.query # None
    /\ Len(TheValue(call.query).geom) = 3
    /\ TheValue(call.query).where[3].args = ExpectedBox

----------------------------------------------------------------------------
(* A MultiProvider over the registry {"a", "b"} (SpecMulti): "a" has the    *)
(* roads at every zoom, "b" has nothing at zoom 0 and the water from zoom 1 *)
(* on; the names of the MultiProvider are any list over "a", "b" and the    *)
(* unregistered "c".                                                        *)

MultiFormats == {"JSON", "TopoJSON", "OpenScienceMap", "Mapbox", "MVT"}
JsonFamily == {"JSON", "TopoJSON"}
BinaryFamily == {"OpenScienceMap", "Mapbox"}

\* a database failure while the first sub-layer probes its columns or
\* fetches its features, or while the last of a longest list fetches them
Injections ==
    {NoInjection}
    \cup {[pos |-> 1, phase |-> phase, fail |-> [step |-> "execute", at |-> 1]] :
             phase \in {"columns", "features"}}
    \cup {[pos |-> MaxNames, phase |-> "features", fail |-> [step |-> "cursor", at |-> 1]]}

InitMulti ==
    /\ layers = [n \in {"a", "b"} |->
                    IF n = "a"
                    THEN Provider_init(<<Some(RoadsQuery)>>, TRUE, DefaultSrid, 2,
                                       DefaultSimplifyUntil)
                    ELSE Provider_init(<<None, Some(WaterQuery)>>, FALSE, DefaultSrid, 2,
                                       DefaultSimplifyUntil)]
    /\ multi \in NameLists
    /\ \E roads \in {r \in RoadsTables : r.W = 0 /\ (r.populated => r.rows # <<>>)} :
          table = TableOf(roads, CHOOSE w \in WaterTables : w.populated)
    /\ resp = NoResponse
    /\ threads = NoThreads
    /\ call = NoCall

NextMulti ==
    \E coord \in MultiCoords, format \in MultiFormats, inj \in Injections :
        MultiSave(coord, format, inj)

SpecMulti == InitMulti /\ [][NextMulti]_vars

MultiSaved == call.op = "multi.save"

\* the first of the names that is not registered
FirstUnknown ==
    multi[CHOOSE i \in DOMAIN multi :
             multi[i] \notin DOMAIN layers /\ \A j \in 1..(i - 1) : multi[j] \in DOMAIN layers]

\* C4: a MultiResponse.save in JSON, TopoJSON, OpenScienceMap or Mapbox with
\* a name that is not registered fails with an error that names the unknown
\* layer (all of them for the JSON family, the first one for the binary
\* family), and no getTile, renderTile, column probe or feature query has
\* been made, nor a connection opened, nor the merge invoked, wherever the
\* unknown name stands in the list.
C4_UnknownLayerFailsBeforeAnyQuery ==
    (MultiSaved /\ call.format \in JsonFamily \cup BinaryFamily
                /\ UnknownLayers(layers, multi) # {})
       => /\ call.raised = (IF call.format \in JsonFamily THEN "KnownUnknown" ELSE "KeyError")
          /\ call.names = (IF call.format \in JsonFamily
                           THEN UnknownLayers(layers, multi) ELSE {FirstUnknown})
          /\ call.events = <<>>
          /\ call.did = NoTally
          /\ call.merged = None
          /\ \A n \in DOMAIN layers : layers[n].columns = EmptyCache

\* the unknown "c" after the known "a", both families
C4_Witness ==
    /\ MultiSaved
    /\ multi = <<"a", "c">>
    /\ call.format = "OpenScienceMap"
    /\ call.raised = "KeyError"
    /\ call.names = {"c"}
    /\ call.events = <<>>

\* the sub-layers of the request that do not resolve to the empty state
NonEmptyNames ==
    SelectSeq(multi, LAMBDA n : ~IsFalsy(ResolveQuery(layers[n].queries, call.coord.zoom)))

\* the names of the entries handed to the merge routine
RECURSIVE EntryNames(_)
EntryNames(entries) ==
    IF entries = <<>> THEN <<>> ELSE <<Head(entries).name>> \o EntryNames(Tail(entries))

MergeEvents == {i \in DOMAIN call.events : call.events[i].ev = "merge"}

\* what the sub-layer n alone returns for the format of the request
OwnFeatures(n) ==
    LET r == renderTile(layers[n], n, table, call.coord, NoFail)
    IN get_features(table, TheValue(r.tile).query[call.format], NoFail).features

MergedOnceWithNonEmpty ==
    /\ call.raised = ""
    /\ call.merged # None
    /\ MergeEvents = {Len(call.events)}
    /\ LET entries == TheValue(call.merged).feature_layers
       IN /\ EntryNames(entries) = NonEmptyNames
          /\ \A i \in DOMAIN entries : entries[i].features = OwnFeatures(entries[i].name)

\* every sub-layer that is not empty has its columns
ColumnsFound ==
    \A i \in DOMAIN NonEmptyNames :
       LET n == NonEmptyNames[i]
           t == TheValue(ResolveQuery(layers[n].queries, call.coord.zoom))
       IN t \in DOMAIN layers[n].columns /\ layers[n].columns[t] # None

BinaryOverKnown ==
    /\ MultiSaved
    /\ call.format \in BinaryFamily
    /\ UnknownLayers(layers, multi) = {}

----------------------------------------------------------------------------
(* Several renderTile requests in flight on one Provider (SpecCache): the   *)
(* steps of Provider.renderTile, one request's between another's.  What a   *)
(* request shares with the others is self.columns; its query, its bounds    *)
(* and the columns it fetched are its own.                                  *)

Threads == 1..MaxThreads

Idle == [pc |-> "idle", zoom |-> 0, query |-> None, missed |-> FALSE, fetched |-> None,
         kind |-> "", raised |-> "", columns |-> None]

\* self.columns of the Provider "a"
Cache == layers["a"].columns

\* try: query = self.queries[coord.zoom] ...; if not query: return EmptyResponse(bounds);
\* if query not in self.columns:
Lookup(th, zoom) ==
    LET self  == layers["a"]
        query == ResolveQuery(self.queries, zoom)
    IN /\ threads[th].pc = "idle"
       /\ threads' = [threads EXCEPT ![th] =
             IF IsFalsy(query)
             THEN [Idle EXCEPT !.pc = "done", !.zoom = zoom, !.query = query,
                               !.kind = "EmptyResponse"]
             ELSE IF TheValue(query) \in DOMAIN self.columns
             THEN [Idle EXCEPT !.pc = "respond", !.zoom = zoom, !.query = query]
             ELSE [Idle EXCEPT !.pc = "introspect", !.zoom = zoom, !.query = query,
                               !.missed = TRUE]]
       /\ UNCHANGED <<layers, multi, table, resp, call>>

\* query_columns(self.dbinfo, self.srid, query, bounds), the right-hand side
Introspect(th) ==
    LET t  == threads[th]
        qc == query_columns(table, TheValue(t.query), TileBounds(Coord(t.zoom)), NoFail)
    IN /\ t.pc = "introspect"
       /\ threads' = [threads EXCEPT ![th] =
             IF qc.raised # ""
             THEN [t EXCEPT !.pc = "done", !.raised = qc.raised]
             ELSE [t EXCEPT !.pc = "store", !.fetched = qc.columns]]
       /\ UNCHANGED <<layers, multi, table, resp, call>>

\* self.columns[query] = ..., the assignment
Store(th) ==
    LET t    == threads[th]
        subq == TheValue(t.query)
    IN /\ t.pc = "store"
       /\ layers' = WithColumns(layers, "a",
                        [q \in DOMAIN Cache \cup {subq} |->
                            IF q = subq THEN t.fetched ELSE Cache[q]])
       /\ threads' = [threads EXCEPT ![th] = [t EXCEPT !.pc = "respond"]]
       /\ UNCHANGED <<multi, table, resp, call>>

\* tolerance = ...; return Response(..., self.columns[query], ...)
Respond(th) ==
    LET t    == threads[th]
        self == layers["a"]
        subq == TheValue(t.query)
        init == Response_init(self.srid, subq, self.columns[subq], TileBounds(Coord(t.zoom)),
                              Tolerance(self.simplify, self.simplify_until, t.zoom),
                              t.zoom, self.clip, Coord(t.zoom), "a")
    IN /\ t.pc = "respond"
       /\ threads' = [threads EXCEPT ![th] =
             [t EXCEPT !.pc = "done", !.raised = init.raised,
                       !.kind = IF init.raised = "" THEN "Response" ELSE "",
                       !.columns = self.columns[subq]]]
       /\ UNCHANGED <<layers, multi, table, resp, call>>

\* the request is over; the thread takes the next one
Return(th) ==
    /\ threads[th].pc = "done"
    /\ threads' = [threads EXCEPT ![th] = Idle]
    /\ UNCHANGED <<layers, multi, table, resp, call>>

InitCache ==
    /\ \E queries \in {<<Some(RoadsQuery)>>, <<None, Some(RoadsQuery)>>} :
          layers = [n \in {"a"} |->
                       Provider_init(queries, TRUE, DefaultSrid, 2, DefaultSimplifyUntil)]
    /\ multi = <<>>
    /\ \E roads \in RoadsTables : table = TableOf(roads, CHOOSE w \in WaterTables : w.populated)
    /\ resp = NoResponse
    /\ call = NoCall
    /\ threads = [th \in Threads |-> Idle]

NextCache ==
    \E th \in Threads :
       \/ \E zoom \in 0..1 : Lookup(th, zoom)
       \/ Introspect(th)
       \/ Store(th)
       \/ Respond(th)
       \/ Return(th)

SpecCache == InitCache /\ [][NextCache]_vars

\* the step is the assignment self.columns[query] = ... of the request th
Writes(th) == threads[th].pc = "store" /\ threads'[th].pc = "respond"

\* the cache is written only by a request that found no entry for its template,
\* and only at that template
WrittenOnlyAfterMiss ==
    /\ Cache' # Cache => \E th \in Threads : Writes(th)
    /\ \A th \in Threads :
          Writes(th) => /\ threads[th].missed
                        /\ \A q \in DOMAIN Cache : q # TheValue(threads[th].query)
                                                      => Cache'[q] = Cache[q]

\* an entry once present stays, with the value it has: every write for a
\* template stores what the earlier ones stored
EntryNeverReplaced ==
    \A q \in DOMAIN Cache : q \in DOMAIN Cache' /\ Cache'[q] = Cache[q]

\* a request that resolves to a null query ends at once, the cache as it was
\* and not looked at
NullQueryLeavesCache ==
    \A th \in Threads :
       (threads[th].pc = "idle" /\ threads'[th].pc # "idle" /\ IsFalsy(threads'[th].query))
          => /\ threads'[th].pc = "done"
             /\ ~threads'[th].missed
             /\ threads'[th].columns = None
             /\ Cache' = Cache

\* C11: over any interleaving of renderTile requests on one Provider, the
\* cache entry of a template is written only by requests that found no entry
\* for that template, every write for a template stores the same column set,
\* an entry once present is never removed or replaced by a different value,
\* and a request that resolves to a null query neither reads nor writes the
\* cache.
C11_CacheWrittenOnceAndStable ==
    [][WrittenOnlyAfterMiss /\ EntryNeverReplaced /\ NullQueryLeavesCache]_vars

====
